---- MODULE Spec2Model ----
(***************************************************************************)
(* A model of the fee / sweep resolution engine and of the mnemonic        *)
(* decoder of helium-wallet-rs:                                            *)
(*   src/traits/txn_fee.rs      the fee model (TxnFeeConfig, txn_fee)       *)
(*   src/cmd/pay.rs             the pay command and calculate_remaining_hnt *)
(*   src/cmd/validators/stake.rs the stake command                         *)
(*   src/mnemonic/mod.rs        mnemonic_to_entropy                         *)
(*                                                                         *)
(* Representation of u64: a natural number n stands for itself; a negative *)
(* integer d stands for the wrapped value 2^64 + d (two's complement), so  *)
(* that a wrapping subtraction is plain integer subtraction.               *)
(***************************************************************************)
EXTENDS Integers, Sequences, FiniteSets, TLC

VARIABLES
    \* ---- pay / stake command (src/cmd/pay.rs, src/cmd/validators/stake.rs)
    args,            \* the parsed command line (Cmd)
    env,             \* what the external client answers, and the build profile
    pc,              \* position of Cmd::run
    account,         \* the account snapshot fetched by get_account
    sweep_destination,
    pay_total,
    txn,             \* the draft
    fee,             \* the sweep loop's local `fee`
    iters,           \* completed iterations of the sweep loop (saturating)
    calls,           \* the external client calls made so far
    submits,         \* number of submit_txn calls made
    outcome,         \* "running", "ok", "panic" or an error
    \* ---- fee model exercised on its own (src/traits/txn_fee.rs)
    fdraft,          \* a draft of any transaction kind
    fconfig,         \* the TxnFeeConfig in use
    fres,            \* the last result computed
    \* ---- mnemonic decoder (src/mnemonic/mod.rs)
    words,           \* the input Vec<String>
    mpc,             \* position of mnemonic_to_entropy
    lookups,         \* number of find_word calls made
    bits,            \* the concatenated index bits
    mres             \* the result of mnemonic_to_entropy

vars == <<args, env, pc, account, sweep_destination, pay_total, txn, fee, iters,
          calls, submits, outcome, fdraft, fconfig, fres, words, mpc, lookups,
          bits, mres>>

payVars == <<args, env, pc, account, sweep_destination, pay_total, txn, fee,
             iters, calls, submits, outcome>>
feeVars == <<fdraft, fconfig, fres>>
mnVars  == <<words, mpc, lookups, bits, mres>>

Max(a, b) == IF a < b THEN b ELSE a
Min(a, b) == IF a < b THEN a ELSE b

RECURSIVE Pow10(_)
Pow10(k) == IF k = 0 THEN 1 ELSE 10 * Pow10(k - 1)

\* ceil(a / b) for a >= 0, b > 0
CeilDiv(a, b) == (a + b - 1) \div b

(***************************************************************************)
(* Fee model: src/traits/txn_fee.rs                                        *)
(***************************************************************************)

LEGACY_STAKING_FEE == 1
LEGACY_TXN_FEE == 0
TXN_FEE_SIGNATURE_SIZE == 64

\* TxnFeeConfig::legacy with a non-zero multiplier
LegacyNonZeroMultiplier ==
    [txn_fees |-> FALSE,
     txn_fee_multiplier |-> 1,
     staking_fee_txn_oui_v1 |-> LEGACY_STAKING_FEE,
     staking_fee_txn_oui_v1_per_address |-> 1,
     staking_fee_txn_add_gateway_v1 |-> LEGACY_STAKING_FEE,
     staking_fee_txn_assert_location_v1 |-> LEGACY_STAKING_FEE]

\* TxnFeeConfig::legacy()
legacy ==
    [txn_fees |-> FALSE,
     txn_fee_multiplier |-> 0,
     staking_fee_txn_oui_v1 |-> LEGACY_STAKING_FEE,
     staking_fee_txn_oui_v1_per_address |-> 0,
     staking_fee_txn_add_gateway_v1 |-> LEGACY_STAKING_FEE,
     staking_fee_txn_assert_location_v1 |-> LEGACY_STAKING_FEE]

\* tests::TxnFeeConfig::active()
active ==
    [txn_fees |-> TRUE,
     txn_fee_multiplier |-> 5000,
     staking_fee_txn_oui_v1 |-> 100 * 100000,
     staking_fee_txn_oui_v1_per_address |-> 100 * 100000,
     staking_fee_txn_add_gateway_v1 |-> 10 * 100000,
     staking_fee_txn_assert_location_v1 |-> 40 * 100000]

\* TxnFeeConfig::dc_payload_size
dc_payload_size(config) == IF config.txn_fees THEN 24 ELSE 1

\* calculate_txn_fee with a truncating division that forgets to round up
calculate_txn_fee_floor(payload_size, config) ==
    LET dc == dc_payload_size(config)
    IN  IF payload_size <= dc THEN 1 ELSE payload_size \div dc

\* calculate_txn_fee
calculate_txn_fee(payload_size, config) ==
    LET dc == dc_payload_size(config)
    IN  IF payload_size <= dc THEN 1 ELSE (payload_size + dc - 1) \div dc

(***************************************************************************)
(* Canonical wire encoding (protobuf) of a draft inside its envelope.      *)
(* Only the byte length matters to the fee. A draft is a record            *)
(*   [kind, payer, payments, amount, fee, nonce, staking_fee,              *)
(*    requested_subnet_size, extra, signature, owner_signature,            *)
(*    gateway_signature, payer_signature]                                  *)
(* where payer is TRUE when the payer field is non-empty, extra is the     *)
(* byte length of the kind's free-form payload, and a signature slot is a  *)
(* record [len, of]: its byte length and what it is a signature of.        *)
(***************************************************************************)

\* byte length of a public key in binary form (Keypair::pubkey_bin)
PUBKEY_SIZE == 33

Kinds == {"payment_v1", "payment_v2", "create_htlc", "redeem_htlc",
          "security_exchange", "token_burn", "add_gateway", "assert_location",
          "oui", "stake_validator"}

PayerKinds == {"add_gateway", "assert_location", "oui"}
StakingKinds == {"add_gateway", "assert_location", "oui"}

\* vec![]
NoSig == [len |-> 0, of |-> <<>>]
\* vec![0; TXN_FEE_SIGNATURE_SIZE]
ZeroSig == [len |-> TXN_FEE_SIGNATURE_SIZE, of |-> <<"zeros">>]

\* what TxnSign::sign signs: the draft with its signature slots emptied
SignedContent(t) == <<"signed", t.kind, t.fee, t.payments, t.amount, t.nonce>>

\* TxnSign::sign
sign(t) == [len |-> TXN_FEE_SIGNATURE_SIZE, of |-> SignedContent(t)]

\* length of the base-128 varint of a u64 (negative: a wrapped value >= 2^63)
VarintLen(n) ==
    IF n < 0 THEN 10
    ELSE IF n < 128 THEN 1
    ELSE IF n < 16384 THEN 2
    ELSE IF n < 2097152 THEN 3
    ELSE IF n < 268435456 THEN 4
    ELSE 5

\* a uint64 field: omitted when it holds the default 0
VarintField(n) == IF n = 0 THEN 0 ELSE 1 + VarintLen(n)

\* a bytes field of the given length: omitted when empty
BytesField(len) == IF len = 0 THEN 0 ELSE 1 + VarintLen(len) + len

KeyField(present) == IF present THEN BytesField(PUBKEY_SIZE) ELSE 0

\* one embedded Payment {payee, amount} of a payment_v2
PaymentField(p) ==
    LET body == BytesField(PUBKEY_SIZE) + VarintField(p.amount)
    IN  1 + VarintLen(body) + body

RECURSIVE PaymentsSize(_)
PaymentsSize(ps) ==
    IF ps = <<>> THEN 0 ELSE PaymentField(Head(ps)) + PaymentsSize(Tail(ps))

\* byte length of the encoded transaction message
BodySize(t) ==
    CASE t.kind = "payment_v2" ->
            KeyField(TRUE) + PaymentsSize(t.payments) + VarintField(t.fee)
            + VarintField(t.nonce) + BytesField(t.signature.len)
      [] t.kind \in {"payment_v1", "security_exchange", "token_burn"} ->
            KeyField(TRUE) + KeyField(TRUE) + VarintField(t.amount)
            + VarintField(t.fee) + VarintField(t.nonce)
            + BytesField(t.signature.len)
      [] t.kind = "create_htlc" ->
            KeyField(TRUE) + KeyField(TRUE) + KeyField(TRUE)
            + BytesField(t.extra) + VarintField(1) + VarintField(t.amount)
            + VarintField(t.fee) + VarintField(t.nonce)
            + BytesField(t.signature.len)
      [] t.kind = "redeem_htlc" ->
            KeyField(TRUE) + KeyField(TRUE) + BytesField(t.extra)
            + VarintField(t.fee) + BytesField(t.signature.len)
      [] t.kind \in {"add_gateway", "assert_location"} ->
            KeyField(TRUE) + KeyField(TRUE) + KeyField(t.payer)
            + BytesField(t.extra) + VarintField(t.nonce)
            + VarintField(t.staking_fee) + VarintField(t.fee)
            + BytesField(t.owner_signature.len)
            + BytesField(t.gateway_signature.len)
            + BytesField(t.payer_signature.len)
      [] t.kind = "oui" ->
            KeyField(TRUE) + KeyField(t.payer) + BytesField(t.extra)
            + VarintField(t.requested_subnet_size) + VarintField(1)
            + VarintField(t.staking_fee) + VarintField(t.fee)
            + BytesField(t.owner_signature.len)
            + BytesField(t.payer_signature.len)
      [] t.kind = "stake_validator" ->
            KeyField(TRUE) + KeyField(TRUE) + VarintField(t.amount)
            + VarintField(t.fee) + BytesField(t.owner_signature.len)

\* tag length of the envelope's oneof member: one byte below field number 16
EnvelopeTag(kind) ==
    IF kind \in {"payment_v2", "stake_validator"} THEN 2 ELSE 1

\* txn.in_envelope().encode(&mut buf); buf.len()
EnvelopeSize(t) ==
    LET body == BodySize(t)
    IN  EnvelopeTag(t.kind) + VarintLen(body) + body

\* payer_sig_clear! with the two branches exchanged
payer_sig_clear_swapped(t) ==
    IF t.kind \in PayerKinds
    THEN IF ~t.payer
         THEN [t EXCEPT !.payer_signature = ZeroSig]
         ELSE [t EXCEPT !.payer_signature = NoSig]
    ELSE t

\* payer_sig_clear!
payer_sig_clear(t) ==
    IF t.kind \in PayerKinds
    THEN IF ~t.payer
         THEN [t EXCEPT !.payer_signature = NoSig]
         ELSE [t EXCEPT !.payer_signature = ZeroSig]
    ELSE t

\* the $sig slots of each impl_txn_fee! invocation, zero-filled
ZeroSignatures(t) ==
    CASE t.kind \in {"add_gateway", "assert_location"} ->
            [t EXCEPT !.owner_signature = ZeroSig, !.gateway_signature = ZeroSig]
      [] t.kind \in {"oui", "stake_validator"} ->
            [t EXCEPT !.owner_signature = ZeroSig]
      [] OTHER -> [t EXCEPT !.signature = ZeroSig]

\* the copy of the draft that txn_fee encodes
FeeCopy(t) == payer_sig_clear(ZeroSignatures([t EXCEPT !.fee = 0]))

\* TxnFee::txn_fee
txn_fee(t, config) ==
    calculate_txn_fee(EnvelopeSize(FeeCopy(t)), config) * config.txn_fee_multiplier

\* TxnStakingFee::txn_staking_fee
txn_staking_fee(t, config) ==
    CASE t.kind = "add_gateway" -> config.staking_fee_txn_add_gateway_v1
      [] t.kind = "assert_location" -> config.staking_fee_txn_assert_location_v1
      [] t.kind = "oui" ->
            config.staking_fee_txn_oui_v1
            + t.requested_subnet_size * config.staking_fee_txn_oui_v1_per_address

\* a draft with every field empty
BlankDraft(kind) ==
    [kind |-> kind, payer |-> FALSE, payments |-> <<>>, amount |-> 0, fee |-> 0,
     nonce |-> 0, staking_fee |-> 0, requested_subnet_size |-> 0, extra |-> 0,
     signature |-> NoSig, owner_signature |-> NoSig,
     gateway_signature |-> NoSig, payer_signature |-> NoSig]

(***************************************************************************)
(* Idle values of the parts a specification does not exercise              *)
(***************************************************************************)

PayIdle ==
    /\ args = [cmd |-> "none"]
    /\ env = [up |-> FALSE]
    /\ pc = "idle"
    /\ account = [fetched |-> FALSE]
    /\ sweep_destination = "None"
    /\ pay_total = 0
    /\ txn = BlankDraft("payment_v2")
    /\ fee = 0
    /\ iters = 0
    /\ calls = {}
    /\ submits = 0
    /\ outcome = "idle"

FeeIdle ==
    /\ fdraft = BlankDraft("payment_v1")
    /\ fconfig = legacy
    /\ fres = [op |-> "none", L |-> 0, v |-> 0, of |-> BlankDraft("payment_v1")]

MnIdle ==
    /\ words = <<>>
    /\ mpc = "idle"
    /\ lookups = 0
    /\ bits = <<>>
    /\ mres = [kind |-> "none", entropy |-> <<>>]

(***************************************************************************)
(* SpecFee: the fee model applied to drafts of every kind                  *)
(***************************************************************************)

\* largest raw payload length handed to calculate_txn_fee
MaxPayload == 60

\* amounts around the two-byte / three-byte varint threshold
FeeAmounts == {0, 10000, 16383, 16384}
FeeSubnetSizes == {0, 8, 128}
FeeExtras == {0, 20}
FeeConfigs == {legacy, active, [active EXCEPT !.txn_fee_multiplier = 1]}

\* signature slots of a draft handed to txn_fee: empty, or filled earlier
FeeSigs == {NoSig, [len |-> 72, of |-> <<"earlier">>]}

FeeDrafts ==
    { [BlankDraft(k) EXCEPT !.amount = a,
                            !.nonce = IF k = "add_gateway" THEN 0 ELSE 1,
                            !.payer = p,
                            !.requested_subnet_size = r, !.extra = x,
                            !.payments = IF k = "payment_v2"
                                         THEN <<[payee |-> "A", amount |-> a]>>
                                         ELSE <<>>,
                            !.signature = g, !.owner_signature = g,
                            !.gateway_signature = g, !.payer_signature = g] :
        k \in Kinds, a \in FeeAmounts, p \in BOOLEAN, r \in FeeSubnetSizes,
        x \in FeeExtras, g \in FeeSigs }

InitFee ==
    /\ PayIdle
    /\ MnIdle
    /\ fdraft \in { d \in FeeDrafts :
                      /\ (d.payer => d.kind \in PayerKinds)
                      /\ (d.requested_subnet_size # 0 => d.kind = "oui")
                      /\ (d.extra # 0 =>
                            d.kind \in {"create_htlc", "redeem_htlc", "oui"})
                      /\ (d.amount # 0 => d.kind \notin PayerKinds) }
    /\ fconfig \in FeeConfigs
    /\ fres = [op |-> "none", L |-> 0, v |-> 0, of |-> fdraft]

\* let fee = txn.txn_fee(&config)?
FeeTxnFee ==
    /\ fres.op # "txn_fee"
    /\ fres' = [op |-> "txn_fee", L |-> EnvelopeSize(FeeCopy(fdraft)),
                v |-> txn_fee(fdraft, fconfig), of |-> fdraft]
    /\ UNCHANGED <<fdraft, fconfig>>

\* let fee = txn.txn_staking_fee(&config)?
FeeStakingFee ==
    /\ fdraft.kind \in StakingKinds
    /\ fres.op # "txn_staking_fee"
    /\ fres' = [op |-> "txn_staking_fee", L |-> 0,
                v |-> txn_staking_fee(fdraft, fconfig), of |-> fdraft]
    /\ UNCHANGED <<fdraft, fconfig>>

\* calculate_txn_fee(payload_size, &config) for a raw payload length
FeeCalculate ==
    /\ fres.op = "none"
    /\ \E L \in 0 .. MaxPayload :
         fres' = [op |-> "calculate_txn_fee", L |-> L,
                  v |-> calculate_txn_fee(L, fconfig), of |-> fdraft]
    /\ UNCHANGED <<fdraft, fconfig>>

\* txn.fee = txn.txn_fee(&config)?; txn.signature = txn.sign(&keypair)?
FeeStoreAndSign ==
    /\ fres.op = "txn_fee"
    /\ fdraft.fee = 0
    /\ fdraft' = LET priced == [fdraft EXCEPT !.fee = fres.v]
                 IN  [priced EXCEPT !.signature = sign(priced),
                                    !.owner_signature = sign(priced)]
    /\ fres' = [fres EXCEPT !.op = "stored"]
    /\ UNCHANGED fconfig

NextFee ==
    \/ (FeeTxnFee /\ UNCHANGED <<payVars, mnVars>>)
    \/ (FeeStakingFee /\ UNCHANGED <<payVars, mnVars>>)
    \/ (FeeCalculate /\ UNCHANGED <<payVars, mnVars>>)
    \/ (FeeStoreAndSign /\ UNCHANGED <<payVars, mnVars>>)

SpecFee == InitFee /\ [][NextFee]_vars

\* C8: under the legacy configuration txn_fee is 0 for every draft of every
\* kind, and txn_staking_fee is 1 for every kind that defines a staking fee
\* (add-gateway, assert-location, oui with any requested_subnet_size).
C8_LegacyFees ==
    fconfig = legacy =>
        /\ (fres.op = "txn_fee" => fres.v = 0)
        /\ (fres.op = "txn_staking_fee" => fres.v = 1)

C8_Witness ==
    /\ fconfig = legacy
    /\ fres.op = "txn_staking_fee"
    /\ fdraft.kind = "oui"
    /\ fdraft.requested_subnet_size = 128
    /\ fdraft.fee = 0
    /\ txn_fee(fdraft, fconfig) = 0

\* C9: under an active configuration the fee of a payload of L bytes is
\* max(1, ceil(L / 24)) * fee_multiplier: at least one billable unit (also
\* below 24 bytes), non-decreasing in L, one unit more on crossing a positive
\* multiple of 24; payment-v1 with amount 16_383 costs 30_000 and with amount
\* 16_384 costs 35_000 at multiplier 5000.
C9_StepFunction ==
    fconfig.txn_fees =>
        /\ (fres.op = "calculate_txn_fee" =>
              /\ fres.v = Max(1, CeilDiv(fres.L, 24))
              /\ fres.v >= 1
              /\ \A M \in 0 .. fres.L : calculate_txn_fee(M, fconfig) <= fres.v
              /\ (fres.L > 0 /\ fres.L % 24 = 0 =>
                    calculate_txn_fee(fres.L + 1, fconfig) = fres.v + 1))
        /\ (fres.op = "txn_fee" =>
              /\ fres.v = Max(1, CeilDiv(fres.L, 24)) * fconfig.txn_fee_multiplier
              /\ (/\ fres.of.kind = "payment_v1"
                  /\ fres.of.fee = 0
                  /\ fconfig.txn_fee_multiplier = 5000
                  => /\ (fres.of.amount = 16383 => fres.v = 30000)
                     /\ (fres.of.amount = 16384 => fres.v = 35000)))

C9_Witness ==
    /\ fconfig = active
    /\ fres.op = "txn_fee"
    /\ fdraft.kind = "payment_v1"
    /\ fdraft.amount = 16384
    /\ fres.L = 145
    /\ fres.v = 35000

(***************************************************************************)
(* The pay command: src/cmd/pay.rs                                         *)
(*                                                                         *)
(* A Decimal is a record [m, e] standing for m / 10^e.                     *)
(***************************************************************************)

DecLess(a, b) == a.m * Pow10(b.e) < b.m * Pow10(a.e)

\* The scale of the Decimal quotient fee / price: the number of fractional
\* digits the quotient needs, as far as the code tells them apart (0, 1, 2,
\* or 3 for "three or more").
QuotientScale(fee_, price) ==
    LET n == fee_ * Pow10(price.e)
    IN  IF n % price.m = 0 THEN 0
        ELSE IF (n * 10) % price.m = 0 THEN 1
        ELSE IF (n * 100) % price.m = 0 THEN 2
        ELSE 3

\* hnt_needed.set_scale(scale - 3), ceil(), to_u64(): bones needed for the fee
BonesNeeded(fee_, price) == CeilDiv(fee_ * 1000 * Pow10(price.e), price.m)

\* oracle_prices.retain(|prediction| ..)
Retain(predicted, now, oracle_window_) ==
    SelectSeq(predicted,
              LAMBDA x : IF x.time < now THEN TRUE
                         ELSE x.time - now < oracle_window_ * 60)

RECURSIVE FoldMax(_, _)
\* oracle_prices.iter().fold(current, |max, x| ..)
FoldMax(max, prices) ==
    IF prices = <<>> THEN max
    ELSE FoldMax(IF DecLess(max, Head(prices).price) THEN Head(prices).price
                 ELSE max,
                 Tail(prices))

\* the oracle price calculate_remaining_hnt divides by
OraclePrice(oracle_window_) ==
    IF oracle_window_ = 0 THEN env.price
    ELSE FoldMax(env.price, Retain(env.predicted, env.now, oracle_window_))

\* the client calls calculate_remaining_hnt makes to get that price
OracleCalls(oracle_window_) ==
    IF oracle_window_ = 0 THEN {"get_oracle_price_current"}
    ELSE {"get_oracle_price_predicted", "get_oracle_price_current"}

\* a - b - c on u64: a panic with overflow checks, a wrapped value without
SubU64(a, b, c) ==
    IF (a - b < 0 \/ a - b - c < 0) /\ env.overflow_checks
    THEN [kind |-> "panic", v |-> 0]
    ELSE [kind |-> "ok", v |-> a - b - c]

\* calculate_remaining_hnt; client.ok tells whether the client's calls succeed
calculate_remaining_hnt(client, acct, pay_total_, fee_, oracle_window_) ==
    IF acct.dc_balance > fee_
    THEN SubU64(acct.balance, pay_total_, 0) @@ [calls |-> {}]
    ELSE LET price == OraclePrice(oracle_window_)
             res == IF ~client.ok THEN [kind |-> "error_client", v |-> 0]
                    ELSE IF QuotientScale(fee_, price) < 3
                    THEN \* scale() - 3 underflows u32
                         IF env.overflow_checks
                         THEN [kind |-> "panic", v |-> 0]
                         ELSE [kind |-> "error_decimal", v |-> 0]
                    ELSE SubU64(acct.balance, pay_total_,
                                BonesNeeded(fee_, price))
         IN  res @@ [calls |-> OracleCalls(oracle_window_)]

RECURSIVE SetSweepAmount(_, _, _)
\* for payment in &mut txn.payments { if payment.payee == dest { .. } }
SetSweepAmount(payments, dest, amount) ==
    IF payments = <<>> THEN <<>>
    ELSE <<IF Head(payments).payee = dest
           THEN [Head(payments) EXCEPT !.amount = amount]
           ELSE Head(payments)>>
         \o SetSweepAmount(Tail(payments), dest, amount)

RECURSIVE BuildPayments(_, _)
\* the payees.iter().map(..).collect() of Cmd::run, folded over the payees:
\* st = [payments, pay_total, sweep_destination, panicked]
BuildPayments(ps, st) ==
    IF ps = <<>> \/ st.panicked THEN st
    ELSE LET p == Head(ps)
         IN  IF ~p.sweep
             THEN BuildPayments(Tail(ps),
                    [st EXCEPT !.pay_total = @ + p.bones,
                               !.payments = Append(@, [payee |-> p.address,
                                                       amount |-> p.bones])])
             ELSE IF st.sweep_destination = "None"
             THEN BuildPayments(Tail(ps),
                    [st EXCEPT !.sweep_destination = p.address,
                               !.payments = Append(@, [payee |-> p.address,
                                                       amount |-> 0])])
             ELSE [st EXCEPT !.panicked = TRUE]

\* the loop's exit test written as "the fee did not grow"
FixedPointOrLower(new_fee, fee_) == new_fee <= fee_

\* if new_fee == fee { break }
FixedPoint(new_fee, fee_) == new_fee = fee_

\* a submission that ignores --commit
SubmitAlways(commit) == TRUE

\* if self.commit { client.submit_txn(..) }
ShouldSubmit(commit) == commit

(***************************************************************************)
(* Inputs of the pay and stake commands                                    *)
(***************************************************************************)

\* iterations of the sweep loop that are counted (the counter saturates)
MaxIters == 4

Fixed(addr, bones) == [address |-> addr, sweep |-> FALSE, bones |-> bones]
Sweep(addr) == [address |-> addr, sweep |-> TRUE, bones |-> 0]

\* --payee lists: sweep only, fixed only, fixed and sweep (to another and to
\* the same address), two sweeps
PayeeLists ==
    { <<Sweep("A")>>,
      <<Fixed("B", 1000)>>,
      <<Fixed("B", 1000), Sweep("A")>>,
      <<Fixed("B", 268435456), Sweep("A")>>,
      <<Fixed("A", 1000), Sweep("A")>>,
      <<Sweep("A"), Sweep("B")>> }

\* --fee
ManualFees == { [some |-> FALSE, v |-> 0], [some |-> TRUE, v |-> 35000] }

\* --oracle-window, in minutes
OracleWindows == {0, 120}

Balances == {500, 9459460, 50000000, 547681723}
DcBalances == {0, 32000, 1000000}
Now == 1000
Prices == { [m |-> 37, e |-> 1], [m |-> 1, e |-> 0] }
Predictions ==
    { <<>>,
      <<[time |-> Now - 30, price |-> [m |-> 39, e |-> 1]],
        [time |-> Now + 60, price |-> [m |-> 41, e |-> 1]],
        [time |-> Now + 120 * 60, price |-> [m |-> 99, e |-> 1]]>> }

PayArgs ==
    [cmd : {"pay"}, payees : PayeeLists, oracle_window : OracleWindows,
     fee : ManualFees, commit : BOOLEAN, stake : {0}]

StakeArgs ==
    [cmd : {"stake"}, payees : {<<>>}, oracle_window : {0},
     fee : {[some |-> FALSE, v |-> 0]}, commit : BOOLEAN,
     stake : {0, 1000000}]

Envs ==
    [up : {TRUE}, balance : Balances, dc_balance : DcBalances,
     speculative_nonce : {0}, config : {legacy, active}, price : Prices,
     predicted : Predictions, now : {Now}, overflow_checks : BOOLEAN]

Init ==
    /\ FeeIdle
    /\ MnIdle
    /\ args \in PayArgs \cup StakeArgs
    /\ env \in Envs
    /\ pc = "start"
    /\ account = [fetched |-> FALSE]
    /\ sweep_destination = "None"
    /\ pay_total = 0
    /\ txn = BlankDraft("payment_v2")
    /\ fee = 0
    /\ iters = 0
    /\ calls = {}
    /\ submits = 0
    /\ outcome = "running"

Fail(how) ==
    /\ outcome' = how
    /\ pc' = "done"

\* get_password, load_wallet, wallet.decrypt
LoadWallet ==
    /\ pc = "start"
    /\ \E ok \in BOOLEAN :
         IF ok
         THEN /\ pc' = IF args.cmd = "pay" THEN "get_account" ELSE "stake_fee"
              /\ UNCHANGED outcome
         ELSE Fail("error_wallet")
    /\ UNCHANGED <<args, env, account, sweep_destination, pay_total, txn, fee,
                   iters, calls, submits>>

\* let account = client.get_account(..)?
GetAccount ==
    /\ pc = "get_account"
    /\ calls' = calls \cup {"get_account"}
    /\ \E ok \in BOOLEAN :
         IF ok
         THEN /\ account' = [fetched |-> TRUE, balance |-> env.balance,
                             dc_balance |-> env.dc_balance,
                             speculative_nonce |-> env.speculative_nonce]
              /\ pc' = "payments"
              /\ UNCHANGED outcome
         ELSE Fail("error_client") /\ UNCHANGED account
    /\ UNCHANGED <<args, env, sweep_destination, pay_total, txn, fee, iters,
                   submits>>

\* the payments of the draft, then the draft itself (pay.rs 52-82)
MakeDraft ==
    /\ pc = "payments"
    /\ LET st == BuildPayments(args.payees,
                   [payments |-> <<>>, pay_total |-> 0,
                    sweep_destination |-> "None", panicked |-> FALSE])
       IN  IF st.panicked
           THEN /\ Fail("panic")
                /\ UNCHANGED <<sweep_destination, pay_total, txn>>
           ELSE /\ sweep_destination' = st.sweep_destination
                /\ pay_total' = st.pay_total
                /\ txn' = [BlankDraft("payment_v2") EXCEPT
                             !.payments = st.payments,
                             !.nonce = account.speculative_nonce + 1]
                /\ pc' = "fee"
                /\ UNCHANGED outcome
    /\ UNCHANGED <<args, env, account, fee, iters, calls, submits>>

\* txn.fee = if let Some(fee) = self.fee { .. } (pay.rs 84-101)
ManualFee ==
    /\ pc = "fee"
    /\ args.fee.some
    /\ IF sweep_destination # "None"
       THEN \E ok \in BOOLEAN :
              LET r == calculate_remaining_hnt([ok |-> ok], account, pay_total,
                                               txn.fee, args.oracle_window)
              IN  /\ calls' = calls \cup r.calls
                  /\ IF r.kind = "ok"
                     THEN /\ txn' = [txn EXCEPT
                                       !.payments = SetSweepAmount(
                                          @, sweep_destination, r.v),
                                       !.fee = args.fee.v]
                          /\ pc' = "sign"
                          /\ UNCHANGED outcome
                     ELSE Fail(r.kind) /\ UNCHANGED txn
       ELSE /\ txn' = [txn EXCEPT !.fee = args.fee.v]
            /\ pc' = "sign"
            /\ UNCHANGED <<calls, outcome>>
    /\ UNCHANGED <<args, env, account, sweep_destination, pay_total, fee,
                   iters, submits>>

\* None => txn.txn_fee(&get_txn_fees(&client)?)? (pay.rs 105)
PlainFee ==
    /\ pc = "fee"
    /\ ~args.fee.some
    /\ sweep_destination = "None"
    /\ calls' = calls \cup {"get_txn_fees"}
    /\ \E ok \in BOOLEAN :
         IF ok
         THEN /\ txn' = [txn EXCEPT !.fee = txn_fee(txn, env.config)]
              /\ pc' = "sign"
              /\ UNCHANGED outcome
         ELSE Fail("error_client") /\ UNCHANGED txn
    /\ UNCHANGED <<args, env, account, sweep_destination, pay_total, fee,
                   iters, submits>>

\* let mut fee = txn.txn_fee(&get_txn_fees(&client)?)? (pay.rs 109)
SweepStart ==
    /\ pc = "fee"
    /\ ~args.fee.some
    /\ sweep_destination # "None"
    /\ calls' = calls \cup {"get_txn_fees"}
    /\ \E ok \in BOOLEAN :
         IF ok
         THEN /\ fee' = txn_fee(txn, env.config)
              /\ pc' = "loop"
              /\ UNCHANGED outcome
         ELSE Fail("error_client") /\ UNCHANGED fee
    /\ UNCHANGED <<args, env, account, sweep_destination, pay_total, txn,
                   iters, submits>>

\* one iteration of the loop (pay.rs 110-135); on break, txn.fee = fee
SweepIterate ==
    /\ pc = "loop"
    /\ \E ok \in BOOLEAN :
         LET r == calculate_remaining_hnt([ok |-> ok], account, pay_total, fee,
                                          args.oracle_window)
             updated == [txn EXCEPT !.payments =
                            SetSweepAmount(@, sweep_destination, r.v)]
             new_fee == txn_fee(updated, env.config)
         IN  IF r.kind # "ok"
             THEN /\ calls' = calls \cup r.calls
                  /\ Fail(r.kind)
                  /\ UNCHANGED <<txn, fee, iters>>
             ELSE /\ calls' = calls \cup r.calls \cup {"get_txn_fees"}
                  /\ iters' = Min(iters + 1, MaxIters)
                  /\ IF ~ok
                     THEN /\ txn' = updated
                          /\ Fail("error_client")
                          /\ UNCHANGED fee
                     ELSE IF FixedPoint(new_fee, fee)
                     THEN /\ txn' = [updated EXCEPT !.fee = fee]
                          /\ pc' = "sign"
                          /\ UNCHANGED <<fee, outcome>>
                     ELSE /\ txn' = updated
                          /\ fee' = new_fee
                          /\ UNCHANGED <<pc, outcome>>
    /\ UNCHANGED <<args, env, account, sweep_destination, pay_total, submits>>

\* the stake draft and its fee (stake.rs 32-40)
StakeFee ==
    /\ pc = "stake_fee"
    /\ calls' = calls \cup {"get_txn_fees"}
    /\ \E ok \in BOOLEAN :
         LET draft == [BlankDraft("stake_validator") EXCEPT
                         !.amount = args.stake]
         IN  IF ok
             THEN /\ txn' = [draft EXCEPT !.fee = txn_fee(draft, env.config)]
                  /\ pc' = "sign"
                  /\ UNCHANGED outcome
             ELSE Fail("error_client") /\ txn' = draft
    /\ UNCHANGED <<args, env, account, sweep_destination, pay_total, fee,
                   iters, submits>>

\* txn.signature = txn.sign(&keypair)? (pay.rs 141, stake.rs 41)
Sign ==
    /\ pc = "sign"
    /\ \E ok \in BOOLEAN :
         IF ok
         THEN /\ txn' = IF args.cmd = "pay"
                        THEN [txn EXCEPT !.signature = sign(txn)]
                        ELSE [txn EXCEPT !.owner_signature = sign(txn)]
              /\ pc' = "submit"
              /\ UNCHANGED outcome
         ELSE Fail("error_sign") /\ UNCHANGED txn
    /\ UNCHANGED <<args, env, account, sweep_destination, pay_total, fee,
                   iters, calls, submits>>

\* if self.commit { Some(client.submit_txn(&envelope)?) } else { None }
Submit ==
    /\ pc = "submit"
    /\ IF ShouldSubmit(args.commit)
       THEN /\ calls' = calls \cup {"submit_txn"}
            /\ submits' = submits + 1
            /\ \E ok \in BOOLEAN :
                 IF ok THEN pc' = "print" /\ UNCHANGED outcome
                 ELSE Fail("error_client")
       ELSE /\ pc' = "print"
            /\ UNCHANGED <<calls, submits, outcome>>
    /\ UNCHANGED <<args, env, account, sweep_destination, pay_total, txn, fee,
                   iters>>

\* print_txn(..)
PrintTxn ==
    /\ pc = "print"
    /\ pc' = "done"
    /\ outcome' = "ok"
    /\ UNCHANGED <<args, env, account, sweep_destination, pay_total, txn, fee,
                   iters, calls, submits>>

Next ==
    \/ (LoadWallet /\ UNCHANGED <<feeVars, mnVars>>)
    \/ (GetAccount /\ UNCHANGED <<feeVars, mnVars>>)
    \/ (MakeDraft /\ UNCHANGED <<feeVars, mnVars>>)
    \/ (ManualFee /\ UNCHANGED <<feeVars, mnVars>>)
    \/ (PlainFee /\ UNCHANGED <<feeVars, mnVars>>)
    \/ (SweepStart /\ UNCHANGED <<feeVars, mnVars>>)
    \/ (SweepIterate /\ UNCHANGED <<feeVars, mnVars>>)
    \/ (StakeFee /\ UNCHANGED <<feeVars, mnVars>>)
    \/ (Sign /\ UNCHANGED <<feeVars, mnVars>>)
    \/ (Submit /\ UNCHANGED <<feeVars, mnVars>>)
    \/ (PrintTxn /\ UNCHANGED <<feeVars, mnVars>>)

Spec == Init /\ [][Next]_vars

\* Cmd::run is a sequential program: it takes its next step
SpecLive == Init /\ [][Next]_vars /\ WF_vars(Next)

(***************************************************************************)
(* Properties of the pay and stake commands                                *)
(***************************************************************************)

RECURSIVE FixedTotal(_)
FixedTotal(ps) ==
    IF ps = <<>> THEN 0
    ELSE (IF Head(ps).sweep THEN 0 ELSE Head(ps).bones) + FixedTotal(Tail(ps))

SweepCount(ps) == Cardinality({i \in DOMAIN ps : ps[i].sweep})

\* the run takes the iterative sweep path of the pay command
SweepPath == args.cmd = "pay" /\ ~args.fee.some /\ SweepCount(args.payees) = 1

\* the run takes the manual-fee path with a sweep payee
ManualSweepPath ==
    args.cmd = "pay" /\ args.fee.some /\ SweepCount(args.payees) = 1

\* the largest fee the draft of this run can cost: every sweep amount at the
\* longest varint
WorstCaseFee ==
    txn_fee([BlankDraft("payment_v2") EXCEPT
               !.nonce = env.speculative_nonce + 1,
               !.payments = [i \in DOMAIN args.payees |->
                   [payee |-> args.payees[i].address,
                    amount |-> IF args.payees[i].sweep THEN -1
                               ELSE args.payees[i].bones]]],
            env.config)

\* the remaining-balance rule of the specification, for a fee f
RemainingRule(f) ==
    IF env.dc_balance > f THEN env.balance - FixedTotal(args.payees)
    ELSE env.balance - FixedTotal(args.payees)
         - CeilDiv(1000 * f * Pow10(OraclePrice(args.oracle_window).e),
                   OraclePrice(args.oracle_window).m)

\* the loop has been left through its break
LoopExited ==
    \/ pc \in {"sign", "submit", "print"}
    \/ pc = "done" /\ outcome \in {"ok", "error_sign"}
    \/ pc = "done" /\ "submit_txn" \in calls

\* C1: on the sweep path without a manual fee, for a balance of at least the
\* fixed payments plus the worst-case fee in tokens, the loop is eventually
\* left (here: at its fixed point, or by a failure of one of its calls); it
\* does not alternate between fee values forever.
C1_SweepLoopTerminates ==
    (/\ SweepPath
     /\ env.balance >= FixedTotal(args.payees)
                       + BonesNeeded(WorstCaseFee, OraclePrice(args.oracle_window)))
    => <>(pc \in {"sign", "done"})

\* C2: whenever the sweep loop has exited, the fee stored in the draft is
\* txn_fee of the final draft, every sweep payment carries the remaining
\* balance computed at exactly that fee, and that draft is the one signed.
C2_FixedPointAtExit ==
    (SweepPath /\ LoopExited) =>
        /\ txn.fee = txn_fee(txn, env.config)
        /\ LET r == calculate_remaining_hnt([ok |-> TRUE], account, pay_total,
                                            txn.fee, args.oracle_window)
           IN  /\ r.kind = "ok"
               /\ \A i \in DOMAIN txn.payments :
                     args.payees[i].sweep => txn.payments[i].amount = r.v
        /\ (txn.signature # NoSig => txn.signature.of = SignedContent(txn))

C2_Witness ==
    /\ SweepPath
    /\ pc = "sign"
    /\ iters >= 2
    /\ account.dc_balance <= txn.fee
    /\ txn.fee = 35000
    /\ \E i \in DOMAIN txn.payments :
         args.payees[i].sweep /\ txn.payments[i].amount > 0

\* C3: the sweep loop runs at most a fixed number of iterations (the counter
\* saturates at MaxIters); a run that has not reached a fixed point by then
\* ends in a ConvergenceFailure.
C3_IterationCap == iters = MaxIters => outcome = "error_convergence"

\* C4: whenever the sweep amount calculate_remaining_hnt is about to compute
\* would be negative (and the price conversion itself succeeds), the call
\* fails with InsufficientFunds, and no draft ever carries a wrapped-around
\* amount.
C4_InsufficientFunds ==
    /\ \A f \in (IF SweepPath /\ pc = "loop" THEN {fee} ELSE {})
             \cup (IF ManualSweepPath /\ pc = "fee" THEN {txn.fee} ELSE {}) :
          LET price == OraclePrice(args.oracle_window)
              burn == ~(account.dc_balance > f)
              short == IF burn
                       THEN account.balance < pay_total + BonesNeeded(f, price)
                       ELSE account.balance < pay_total
          IN  (short /\ (burn => QuotientScale(f, price) >= 3)) =>
                calculate_remaining_hnt([ok |-> TRUE], account, pay_total, f,
                    args.oracle_window).kind = "error_insufficient_funds"
    /\ \A i \in DOMAIN txn.payments : txn.payments[i].amount >= 0

\* C5: a payee list with two sweep payees makes the command fail with
\* InvalidInput before any call to the external client has been made (runs
\* that end earlier because the wallet or the client failed are left aside).
C5_TwoSweepsRejectedEarly ==
    (args.cmd = "pay" /\ SweepCount(args.payees) >= 2) =>
        /\ pc \in {"start", "get_account", "payments", "done"}
        /\ (pc = "done" /\ outcome \notin {"error_wallet", "error_client"} =>
              outcome = "error_invalid_input" /\ calls = {})

\* C6: with a manual fee F and a sweep payee, the final draft carries fee F
\* and the sweep amount is the remaining-balance rule evaluated at fee F
\* (stated for the runs in which that rule gives an amount, not a deficit).
C6_ManualFeeSweep ==
    (/\ ManualSweepPath
     /\ pc \in {"sign", "submit", "print"}
     /\ RemainingRule(args.fee.v) >= 0) =>
        /\ txn.fee = args.fee.v
        /\ \A i \in DOMAIN txn.payments :
              args.payees[i].sweep =>
                  txn.payments[i].amount = RemainingRule(args.fee.v)

\* the fee of the draft is resolved: the manual fee, or txn_fee of the draft
FeeResolved ==
    IF args.fee.some THEN txn.fee = args.fee.v
    ELSE txn.fee = txn_fee(txn, env.config)

\* the slot the command fills when signing
SignatureSlot == IF args.cmd = "pay" THEN txn.signature ELSE txn.owner_signature

\* C7: pay and stake call submit at most once, only with --commit, and only
\* after the fee is resolved and the signature slot is filled from the draft
\* carrying that fee; a failure before submit leaves submit uncalled; once
\* signed, the draft never changes again, whether submit succeeds or fails.
C7_SubmitLast ==
    /\ [](/\ submits <= 1
          /\ (submits = 1 <=> "submit_txn" \in calls)
          /\ (submits = 1 =>
                /\ args.commit
                /\ FeeResolved
                /\ SignatureSlot.of = SignedContent(txn))
          /\ (pc = "done" /\ SignatureSlot = NoSig => submits = 0))
    /\ [][(pc \in {"submit", "print", "done"}) => (txn' = txn)]_vars

C7_Witness ==
    /\ args.cmd = "pay"
    /\ SweepCount(args.payees) = 1
    /\ submits = 1
    /\ pc = "done"
    /\ outcome = "error_client"
    /\ txn.signature.of = SignedContent(txn)
    /\ txn.fee = 35000

(***************************************************************************)
(* Mnemonic decoder: src/mnemonic/mod.rs                                   *)
(*                                                                         *)
(* A word is a sequence of one-letter strings.                             *)
(***************************************************************************)

\* include_str!("wordlists/english.txt"): the first lines of the BIP39
\* English wordlist, in order (line i of the file is element i + 1)
WORDS_ENGLISH ==
    << <<"a", "b", "a", "n", "d", "o", "n">>,
       <<"a", "b", "i", "l", "i", "t", "y">>,
       <<"a", "b", "l", "e">>,
       <<"a", "b", "o", "u", "t">>,
       <<"a", "b", "o", "v", "e">>,
       <<"a", "b", "s", "e", "n", "t">>,
       <<"a", "b", "s", "o", "r", "b">>,
       <<"a", "b", "s", "t", "r", "a", "c", "t">>,
       <<"a", "b", "s", "u", "r", "d">>,
       <<"a", "b", "u", "s", "e">>,
       <<"a", "c", "c", "e", "s", "s">>,
       <<"a", "c", "c", "i", "d", "e", "n", "t">>,
       <<"a", "c", "c", "o", "u", "n", "t">>,
       <<"a", "c", "c", "u", "s", "e">>,
       <<"a", "c", "h", "i", "e", "v", "e">>,
       <<"a", "c", "i", "d">>,
       <<"a", "c", "o", "u", "s", "t", "i", "c">>,
       <<"a", "c", "q", "u", "i", "r", "e">>,
       <<"a", "c", "r", "o", "s", "s">>,
       <<"a", "c", "t">>,
       <<"a", "c", "t", "i", "o", "n">>,
       <<"a", "c", "t", "o", "r">>,
       <<"a", "c", "t", "r", "e", "s", "s">>,
       <<"a", "c", "t", "u", "a", "l">>,
       <<"a", "d", "a", "p", "t">>,
       <<"a", "d", "d">>,
       <<"a", "d", "d", "i", "c", "t">>,
       <<"a", "d", "d", "r", "e", "s", "s">>,
       <<"a", "d", "j", "u", "s", "t">>,
       <<"a", "d", "m", "i", "t">>,
       <<"a", "d", "u", "l", "t">>,
       <<"a", "d", "v", "a", "n", "c", "e">>,
       <<"a", "d", "v", "i", "c", "e">> >>

MIN_CMP_LEN == 4

AsciiLower ==
    ("A" :> "a") @@ ("B" :> "b") @@ ("C" :> "c") @@ ("D" :> "d") @@ ("E" :> "e")
    @@ ("F" :> "f") @@ ("G" :> "g") @@ ("H" :> "h") @@ ("I" :> "i") @@ ("J" :> "j")
    @@ ("K" :> "k") @@ ("L" :> "l") @@ ("M" :> "m") @@ ("N" :> "n") @@ ("O" :> "o")
    @@ ("P" :> "p") @@ ("Q" :> "q") @@ ("R" :> "r") @@ ("S" :> "s") @@ ("T" :> "t")
    @@ ("U" :> "u") @@ ("V" :> "v") @@ ("W" :> "w") @@ ("X" :> "x") @@ ("Y" :> "y")
    @@ ("Z" :> "z")

\* str::to_ascii_lowercase
to_ascii_lowercase(word) ==
    [i \in DOMAIN word |->
        IF word[i] \in DOMAIN AsciiLower THEN AsciiLower[word[i]] ELSE word[i]]

Prefix(word) == SubSeq(word, 1, MIN_CMP_LEN)

\* a word test that compares whole words only
WordMatchesExact(user_word, list_word) ==
    user_word = list_word

\* the test of one list_word in find_english_word's loop
WordMatches(user_word, list_word) ==
    \/ /\ Len(user_word) >= MIN_CMP_LEN
       /\ Len(list_word) >= MIN_CMP_LEN
       /\ Prefix(user_word) = Prefix(list_word)
    \/ user_word = list_word

\* Language::find_word / find_english_word: the first matching line, if any
find_word(user_word) ==
    LET lower == to_ascii_lowercase(user_word)
        hits == {i \in DOMAIN WORDS_ENGLISH : WordMatches(lower, WORDS_ENGLISH[i])}
    IN  IF hits = {} THEN [found |-> FALSE, idx |-> 0]
        ELSE [found |-> TRUE,
              idx |-> (CHOOSE i \in hits : \A j \in hits : i <= j) - 1]

RECURSIVE Binary(_, _)
\* the low `width` bits of n, most significant first
Binary(n, width) ==
    IF width = 0 THEN <<>>
    ELSE Append(Binary(n \div 2, width - 1), n % 2)

\* format!("{:011b}", idx) with the least significant bit first
Format011bLittleEndian(idx) == [j \in 1..11 |-> (idx \div (2 ^ (j - 1))) % 2]

\* format!("{:011b}", idx)
Format011b(idx) == Binary(idx, 11)

RECURSIVE binary_to_bytes(_)
\* usize::from_str_radix(bin, 2)
binary_to_bytes(bin) ==
    IF bin = <<>> THEN 0
    ELSE 2 * binary_to_bytes(SubSeq(bin, 1, Len(bin) - 1)) + bin[Len(bin)]

\* a word count test that only rejects mnemonics that are too short
ValidWordCountAtLeast(n) == n >= 12

\* words.len() != 12 is rejected
ValidWordCount(n) == n = 12

\* ((bits.len() as f64 / 33.0) * 32.0).floor()
divider_index(len) == (len * 32) \div 33

\* the entropy_base bytes: RE_BYTES chunks of up to 8 bits, parsed in order
RECURSIVE EntropyBase(_)
EntropyBase(entropy_bits) ==
    IF entropy_bits = <<>> THEN <<>>
    ELSE LET n == Min(8, Len(entropy_bits))
         IN  <<binary_to_bytes(SubSeq(entropy_bits, 1, n)) % 256>>
             \o EntropyBase(SubSeq(entropy_bits, n + 1, Len(entropy_bits)))

(***************************************************************************)
(* SpecMn: mnemonic_to_entropy on mnemonics of 11 to 11 + MaxTail words    *)
(***************************************************************************)

\* words appended to an 11-word head: at most this many
MaxTail == 2

W(i) == WORDS_ENGLISH[i + 1]

\* 11-word heads: full words, partial and upper-case words, an unknown word
MnHeads ==
    { <<W(3), W(32), W(7), W(19), W(0), W(24), W(16), W(9), W(31), W(2), W(21)>>,
      <<Prefix(W(3)), W(32), <<"A", "B", "S", "T">>, W(19), W(0),
        <<"a", "d", "a", "p", "t", "s">>, W(16), W(9), Prefix(W(31)), W(2),
        W(21)>>,
      <<W(3), W(32), W(7), W(19), <<"z", "o", "o">>, W(24), W(16), W(9), W(31),
        W(2), W(21)>> }

MnTailWords ==
    { W(0), W(1), W(15), W(16), W(19), W(32), <<"a", "c", "t", "i">>,
      <<"z", "o", "o">>, <<"a", "c", "o", "u">>,
      <<"A", "D", "V", "I", "C", "E", "S">> }

RECURSIVE Tails(_)
Tails(n) ==
    IF n = 0 THEN {<<>>}
    ELSE Tails(n - 1)
         \cup {Append(t, x) : t \in {u \in Tails(n - 1) : Len(u) = n - 1},
                              x \in MnTailWords}

InitMn ==
    /\ PayIdle
    /\ FeeIdle
    /\ words \in {h \o t : h \in MnHeads, t \in Tails(MaxTail)}
    /\ mpc = "start"
    /\ lookups = 0
    /\ bits = <<>>
    /\ mres = [kind |-> "none", entropy |-> <<>>]

MnFail(how) ==
    /\ mres' = [kind |-> how, entropy |-> <<>>]
    /\ mpc' = "done"

\* if words.len() != 12 { bail!("Invalid number of seed words") }
MnCheckCount ==
    /\ mpc = "start"
    /\ IF ValidWordCount(Len(words))
       THEN mpc' = "lookup" /\ UNCHANGED mres
       ELSE MnFail("error_invalid_input")
    /\ UNCHANGED <<words, lookups, bits>>

\* one step of words.iter().map(find_word ..).collect::<Result<String>>()
MnFindWord ==
    /\ mpc = "lookup"
    /\ lookups < Len(words)
    /\ LET r == find_word(words[lookups + 1])
       IN  /\ lookups' = lookups + 1
           /\ IF r.found
              THEN /\ bits' = bits \o Format011b(r.idx)
                   /\ mpc' = IF lookups + 1 = Len(words) THEN "checksum"
                             ELSE "lookup"
                   /\ UNCHANGED mres
              ELSE MnFail("error_word_not_found") /\ UNCHANGED bits
    /\ UNCHANGED words

\* split_at(divider_index), the checksum test and the entropy bytes
MnDecode ==
    /\ mpc = "checksum"
    /\ LET d == divider_index(Len(bits))
           entropy_bits == SubSeq(bits, 1, d)
           checksum_bits == SubSeq(bits, d + 1, Len(bits))
           entropy_base == EntropyBase(entropy_bits)
       IN  IF checksum_bits # <<0, 0, 0, 0>>
           THEN MnFail("error_checksum")
           ELSE IF Len(entropy_base) > 16
           THEN MnFail("panic")
           ELSE /\ mres' = [kind |-> "ok",
                            entropy |-> entropy_base \o entropy_base]
                /\ mpc' = "done"
    /\ UNCHANGED <<words, lookups, bits>>

NextMn ==
    \/ (MnCheckCount /\ UNCHANGED <<payVars, feeVars>>)
    \/ (MnFindWord /\ UNCHANGED <<payVars, feeVars>>)
    \/ (MnDecode /\ UNCHANGED <<payVars, feeVars>>)

SpecMn == InitMn /\ [][NextMn]_vars

AllFound == \A i \in DOMAIN words : find_word(words[i]).found

\* C10: a mnemonic whose word count is not 12 fails with InvalidInput before
\* any wordlist lookup; a 12-word mnemonic whose words are all found and whose
\* 12th index is not a multiple of 16 (the last 4 of the 132 bits are not
\* "0000") fails with ChecksumMismatch; neither ever yields entropy.
C10_CountAndChecksum ==
    /\ (Len(words) # 12 =>
          /\ lookups = 0
          /\ mres.kind \in {"none", "error_invalid_input"}
          /\ (mpc # "start" => mres.kind = "error_invalid_input"))
    /\ (/\ Len(words) = 12
        /\ AllFound
        /\ find_word(words[12]).idx % 16 # 0
        => /\ mres.kind \in {"none", "error_checksum"}
           /\ (mpc = "done" =>
                 /\ mres.kind = "error_checksum"
                 /\ Len(bits) = 132
                 /\ SubSeq(bits, 129, 132) # <<0, 0, 0, 0>>))
    /\ (mres.kind = "ok" => Len(words) = 12)

C10_Witness ==
    /\ Len(words) = 12
    /\ AllFound
    /\ lookups = 12
    /\ mpc = "done"
    /\ mres.kind = "error_checksum"
    /\ find_word(words[12]).idx = 20

(***************************************************************************)
(* mnemonic_to_entropy as a function of the word list                      *)
(***************************************************************************)

\* the String collected from the per-word format!("{:011b}", idx)
RECURSIVE WordBits(_)
WordBits(ws) ==
    IF ws = <<>> THEN <<>>
    ELSE WordBits(SubSeq(ws, 1, Len(ws) - 1))
         \o Format011b(find_word(ws[Len(ws)]).idx)

\* mnemonic_to_entropy(words): the result of the whole call
mnemonic_to_entropy(ws) ==
    IF ~ValidWordCount(Len(ws))
    THEN [kind |-> "error_invalid_input", entropy |-> <<>>]
    ELSE IF \E i \in DOMAIN ws : ~find_word(ws[i]).found
    THEN [kind |-> "error_word_not_found", entropy |-> <<>>]
    ELSE LET bs == WordBits(ws)
             d == divider_index(Len(bs))
             entropy_base == EntropyBase(SubSeq(bs, 1, d))
         IN  IF SubSeq(bs, d + 1, Len(bs)) # <<0, 0, 0, 0>>
             THEN [kind |-> "error_checksum", entropy |-> <<>>]
             ELSE IF Len(entropy_base) > 16
             THEN [kind |-> "panic", entropy |-> <<>>]
             ELSE [kind |-> "ok", entropy |-> entropy_base \o entropy_base]

\* the position of a wordlist word in the list, counted from 0
IndexOf(w) == (CHOOSE i \in DOMAIN WORDS_ENGLISH : WORDS_ENGLISH[i] = w) - 1

ListWords == {WORDS_ENGLISH[i] : i \in DOMAIN WORDS_ENGLISH}

\* input `u` may stand for the wordlist word `w`: a word of 4 or more letters
\* is replaced by any input with the same first 4 letters up to case, a
\* shorter word is kept as it is
Agrees(u, w) ==
    IF Len(w) >= 4
    THEN /\ Len(u) >= 4
         /\ SubSeq(to_ascii_lowercase(u), 1, 4) = SubSeq(w, 1, 4)
    ELSE u = w

Counterparts(u) == {w \in ListWords : Agrees(u, w)}

\* a full-word mnemonic the current input stands for
FullWords == [i \in DOMAIN words |-> CHOOSE w \in Counterparts(words[i]) : TRUE]

HasFullWords == \A i \in DOMAIN words : Counterparts(words[i]) # {}

RECURSIVE IndexBits(_)
\* 11 bits per index, most significant first, for a sequence of indices
IndexBits(idxs) ==
    IF idxs = <<>> THEN <<>>
    ELSE IndexBits(SubSeq(idxs, 1, Len(idxs) - 1))
         \o [j \in 1..11 |-> (idxs[Len(idxs)] \div (2 ^ (11 - j))) % 2]


\* C11: when the 12 input words agree, word by word, with the words of a
\* full-word mnemonic that decodes successfully (4 or more letters: same
\* first 4 letters up to case; shorter: the same word), each input word is
\* looked up to the index of the full word, and the decoder ends with exactly
\* the entropy of the full-word mnemonic.
C11_PartialWordsDecodeAlike ==
    (/\ Len(words) = 12
     /\ HasFullWords
     /\ mnemonic_to_entropy(FullWords).kind = "ok")
    => /\ \A i \in DOMAIN words : \A w \in Counterparts(words[i]) :
            find_word(words[i]) = [found |-> TRUE, idx |-> IndexOf(w)]
       /\ bits = IndexBits([i \in 1..lookups |-> IndexOf(FullWords[i])])
       /\ mres.kind \in {"none", "ok"}
       /\ (mpc = "done" =>
             /\ mres = mnemonic_to_entropy(FullWords)
             /\ Len(mres.entropy) = 32)

C11_Witness ==
    /\ mpc = "done"
    /\ mres.kind = "ok"
    /\ HasFullWords
    /\ words[3] = <<"A", "B", "S", "T">>
    /\ words[4] = <<"a", "c", "t">>
    /\ words[6] = <<"a", "d", "a", "p", "t", "s">>
    /\ words[12] = <<"a", "c", "o", "u">>
    /\ FullWords # words
    /\ FullWords[12] = W(16)

\* the indices the looked-up words were found at
FoundIndices == [i \in DOMAIN words |-> find_word(words[i]).idx]

\* bit j (from 1) of the twelve 11-bit big-endian encodings, concatenated
IndexBit(j) ==
    (FoundIndices[((j - 1) \div 11) + 1] \div (2 ^ (10 - ((j - 1) % 11)))) % 2

\* the byte made of bits 8k+1 .. 8k+8, first bit most significant
ExpectedByte(k) ==
    128 * IndexBit(8 * k + 1) + 64 * IndexBit(8 * k + 2)
    + 32 * IndexBit(8 * k + 3) + 16 * IndexBit(8 * k + 4)
    + 8 * IndexBit(8 * k + 5) + 4 * IndexBit(8 * k + 6)
    + 2 * IndexBit(8 * k + 7) + IndexBit(8 * k + 8)


\* C12: a successful decode of 12 words returns 32 bytes; bytes 0..15 are the
\* first 128 bits of the twelve 11-bit big-endian index encodings, 8 bits per
\* byte in order, and byte k+16 equals byte k for k in 0..15.
C12_EntropyLayout ==
    mres.kind = "ok"
    => /\ Len(words) = 12
       /\ Len(mres.entropy) = 32
       /\ \A k \in 0..15 :
            /\ mres.entropy[k + 1] = ExpectedByte(k)
            /\ mres.entropy[k + 17] = mres.entropy[k + 1]

C12_Witness ==
    /\ mres.kind = "ok"
    /\ FoundIndices = <<3, 32, 7, 19, 0, 24, 16, 9, 31, 2, 21, 32>>
    /\ mres.entropy[1] = 0
    /\ mres.entropy[2] = 96
    /\ mres.entropy[16] = 130
    /\ mres.entropy[32] = 130

\* the fees calculate_remaining_hnt is about to be called with in this state
PendingFees ==
    (IF SweepPath /\ pc = "loop" THEN {fee} ELSE {})
    \cup (IF ManualSweepPath /\ pc = "fee" THEN {txn.fee} ELSE {})

\* the prices the rule of the specification takes the maximum of: the current
\* price and, for a window other than 0, the predicted points that are in the
\* past or less than oracle_window * 60 seconds ahead
WindowPrices ==
    {env.price}
    \cup (IF args.oracle_window = 0 THEN {}
          ELSE {env.predicted[i].price : i \in
                   {j \in DOMAIN env.predicted :
                       \/ env.predicted[j].time < env.now
                       \/ env.predicted[j].time
                            < env.now + args.oracle_window * 60}})

RulePrice == CHOOSE p \in WindowPrices : \A q \in WindowPrices : ~DecLess(p, q)

\* C13: calculate_remaining_hnt returns balance - fixed_payment_total when
\* data_credit_balance > fee, and otherwise balance - fixed_payment_total -
\* ceil(1000 * fee / P), for every fee >= 0 and positive price P, where P is
\* the current price for window 0 and otherwise the maximum of the current
\* price and the predicted points in the window (stated for the calls in
\* which that amount is not negative, and the client answers).
C13_RemainingHnt ==
    \A f \in PendingFees :
        LET expected ==
                IF account.dc_balance > f THEN account.balance - pay_total
                ELSE account.balance - pay_total
                     - CeilDiv(1000 * f * Pow10(RulePrice.e), RulePrice.m)
            r == calculate_remaining_hnt([ok |-> TRUE], account, pay_total, f,
                                         args.oracle_window)
        IN  expected >= 0 => (r.kind = "ok" /\ r.v = expected)

\* the draft the specification sizes: fee 0, every owner, gateway and plain
\* signature slot 64 zero bytes, the payer signature 64 zero bytes exactly
\* when a payer is set
SizedDraft(t) ==
    [t EXCEPT !.fee = 0,
              !.signature = [len |-> 64, of |-> <<"zeros">>],
              !.owner_signature = [len |-> 64, of |-> <<"zeros">>],
              !.gateway_signature = [len |-> 64, of |-> <<"zeros">>],
              !.payer_signature =
                  IF t.kind \in PayerKinds
                  THEN IF t.payer THEN [len |-> 64, of |-> <<"zeros">>]
                       ELSE [len |-> 0, of |-> <<>>]
                  ELSE @]

\* the draft with its fee and every signature slot emptied
Unsigned(t) ==
    [t EXCEPT !.fee = 0, !.signature = NoSig, !.owner_signature = NoSig,
              !.gateway_signature = NoSig, !.payer_signature = NoSig]

\* C14: txn_fee sizes a copy of the draft with fee 0, every owner, gateway
\* and plain signature slot 64 zero bytes, and, for the kinds with an optional
\* payer, the payer signature 64 zero bytes if and only if a payer is set;
\* the fee returned is the same whatever fee and signatures the draft
\* carries, and the draft itself is the one that was passed in, unchanged.
C14_FeeOfNormalisedCopy ==
    fres.op = "txn_fee" =>
        /\ fres.L = EnvelopeSize(SizedDraft(fdraft))
        /\ fres.v = calculate_txn_fee(fres.L, fconfig) * fconfig.txn_fee_multiplier
        /\ fres.v = txn_fee(Unsigned(fdraft), fconfig)
        /\ fres.of = fdraft
        /\ (fdraft.kind \in PayerKinds /\ ~fdraft.payer =>
              fres.L < EnvelopeSize([SizedDraft(fdraft) EXCEPT
                                        !.payer_signature = ZeroSig]))

C14_Witness ==
    /\ fres.op = "txn_fee"
    /\ fconfig = active
    /\ fdraft.kind = "add_gateway"
    /\ ~fdraft.payer
    /\ fdraft.payer_signature.len = 72
    /\ fdraft.fee = 45000
    /\ fdraft.owner_signature.of = SignedContent(fdraft)
    /\ fres.L = 205
    /\ fres.v = 45000

RECURSIVE AmountSum(_)
AmountSum(payments) ==
    IF payments = <<>> THEN 0
    ELSE Head(payments).amount + AmountSum(Tail(payments))

\* the draft's payments have been built from the payees of a run with a sweep
SweepDraftBuilt ==
    /\ args.cmd = "pay"
    /\ SweepCount(args.payees) = 1
    /\ Len(txn.payments) = Len(args.payees)

\* C15: sweep resolution, with a manual fee or iteratively, writes the amount
\* of the sweep payment only: every fixed-amount payment of the draft keeps
\* the amount the caller gave, also when its payee is the sweep payee's
\* address, and the amounts of the final draft add up to no more than the
\* account balance (stated for drafts in which no amount has wrapped around).
C15_OnlySweepPaymentChanges ==
    (/\ SweepDraftBuilt
     /\ \A i \in DOMAIN txn.payments : txn.payments[i].amount >= 0)
    => /\ \A i \in DOMAIN txn.payments :
             ~args.payees[i].sweep =>
                 txn.payments[i].amount = args.payees[i].bones
       /\ (pc \in {"sign", "submit", "print"}
             => AmountSum(txn.payments) <= env.balance)

====
